---- MODULE Spec2Model ----
(***************************************************************************)
(* Model of food_tracker_streamlit.py: the SQLite store (tables foods and  *)
(* entries with their AUTOINCREMENT counters and constraints), the store   *)
(* functions add_food / delete_food / add_entry / delete_entry, the joined *)
(* queries, and the calculations compute_row_totals / summarize / the      *)
(* per-day grouping of the history tab.                                    *)
(*                                                                         *)
(* Numbers: SQLite REAL / Python float values are modelled as exact        *)
(* integers.  A per-row total is kept in hundredths, so that qty / 100.0   *)
(* is exact: a total t stands for the float t / 100.                       *)
(* Text: a str is a sequence of one-character strings, so that strip() and *)
(* the string comparison of BETWEEN are computed, not assumed.             *)
(***************************************************************************)
EXTENDS Integers, Sequences, FiniteSets, TLC

\* ------------------------------------------------------------------------
\* Bounds
\* ------------------------------------------------------------------------
\* caps on the two AUTOINCREMENT counters (sqlite_sequence.seq)
MaxFoodId == 3
MaxEntryId == 2
\* number of entry rows the tables given to the queries are drawn from
MaxRows == 5

\* ------------------------------------------------------------------------
\* Text helpers
\* ------------------------------------------------------------------------
RECURSIVE lstrip(_)
lstrip(s) == IF s # <<>> /\ Head(s) = " " THEN lstrip(Tail(s)) ELSE s

RECURSIVE rstrip(_)
rstrip(s) ==
    IF s # <<>> /\ s[Len(s)] = " " THEN rstrip(SubSeq(s, 1, Len(s) - 1)) ELSE s

\* str.strip(): leading and trailing whitespace removed
strip(s) == rstrip(lstrip(s))

\* the character of a decimal digit
DigitChar(n) == << "0", "1", "2", "3", "4", "5", "6", "7", "8", "9" >>[n + 1]

\* two decimal digits of n, zero padded (%m and %d of strftime)
TwoDigits(n) == << DigitChar(n \div 10), DigitChar(n % 10) >>

RECURSIVE Digits(_)
\* the decimal digits of n (%Y of strftime)
Digits(n) ==
    IF n < 10 THEN << DigitChar(n) >> ELSE Append(Digits(n \div 10), DigitChar(n % 10))

\* d.strftime("%Y-%m-%d") of a date d = <<year, month, day>>
strftime(d) == Digits(d[1]) \o << "-" >> \o TwoDigits(d[2]) \o << "-" >> \o TwoDigits(d[3])

\* the characters of a date text in the order of SQLite's BINARY collation
\* ('-' is 0x2D, below '0' = 0x30)
Collation == << "-", "0", "1", "2", "3", "4", "5", "6", "7", "8", "9" >>
CharRank(c) == CHOOSE i \in 1..Len(Collation) : Collation[i] = c

RECURSIVE TextLeq(_, _)
\* s <= t for TEXT values under the BINARY collation (memcmp order)
TextLeq(s, t) ==
    IF s = <<>> THEN TRUE
    ELSE IF t = <<>> THEN FALSE
    ELSE IF CharRank(Head(s)) < CharRank(Head(t)) THEN TRUE
    ELSE IF CharRank(Head(s)) > CharRank(Head(t)) THEN FALSE
    ELSE TextLeq(Tail(s), Tail(t))

\* ------------------------------------------------------------------------
\* Schema
\* ------------------------------------------------------------------------
\* CHECK(unit IN ('per100g','per_piece','per_serving'))
Units == { "per100g", "per_piece", "per_serving" }

VARIABLES
    foods,       \* table foods: set of rows
    entries,     \* table entries: set of rows
    seq_foods,   \* sqlite_sequence.seq of foods (AUTOINCREMENT)
    seq_entries, \* sqlite_sequence.seq of entries (AUTOINCREMENT)
    last,        \* the last store call: its name, arguments and outcome
    summary_date, \* the date the summary was asked for
    day_df,      \* frame returned by get_entries_by_date
    totals,      \* tuple returned by summarize(day_df)
    hist_range,  \* the << start_d, end_d >> the history was asked for
    hist_df,     \* frame returned by get_entries_between_dates
    daily,       \* hist_df grouped by d, summed and sorted by d
    preview      \* a row and the tuple compute_row_totals returned for it

store == << foods, entries, seq_foods, seq_entries, last >>
views == << summary_date, day_df, totals, hist_range, hist_df, daily, preview >>
vars == << foods, entries, seq_foods, seq_entries, last,
          summary_date, day_df, totals, hist_range, hist_df, daily, preview >>

FoodIds == { f.id : f \in foods }
EntryIds == { e.id : e \in entries }

\* ------------------------------------------------------------------------
\* Inputs
\* ------------------------------------------------------------------------
\* values passed to add_food: a per-100g food, a per-piece food without
\* calories, a food with a negative value, a food with an unknown unit
GramsFood == [unit |-> "per100g", protein |-> 3, carbs |-> 28, fat |-> 1, fiber |-> 2, calories |-> 130]
PieceFood == [unit |-> "per_piece", protein |-> 6, carbs |-> 1, fat |-> 5, fiber |-> 1, calories |-> 0]
NegativeFood == [unit |-> "per_serving", protein |-> -1, carbs |-> 3, fat |-> 2, fiber |-> 0, calories |-> 120]
CupFood == [unit |-> "per_cup", protein |-> 6, carbs |-> 1, fat |-> 5, fiber |-> 0, calories |-> 0]

\* the calls of add_food that are tried: << name, values >>
FoodInputs ==
    { << << "r" >>, GramsFood >>,
      << << " ", "r", " " >>, PieceFood >>,
      << << "e" >>, NegativeFood >>,
      << << " " >>, GramsFood >>,
      << << "e" >>, CupFood >> }

\* the calls of add_entry that are tried, for each food id: << d, qty, note >>
EntryInputs ==
    { << << 2023, 12, 31 >>, 2, << >> >>,
      << << 2024, 1, 1 >>, -1, << " ", "n" >> >> }

NoCall == [op |-> "none", raised |-> FALSE]

Init ==
    /\ foods = {}
    /\ entries = {}
    /\ seq_foods = 0
    /\ seq_entries = 0
    /\ last = NoCall
    /\ summary_date = << >>
    /\ hist_range = << >>
    /\ day_df = << >>
    /\ totals = << >>
    /\ hist_df = << >>
    /\ daily = << >>
    /\ preview = << >>

\* ------------------------------------------------------------------------
\* Store functions
\* ------------------------------------------------------------------------
\* the row of foods stored for the stripped name nm and the values v
FoodRow(id, nm, v) ==
    [id |-> id, name |-> nm, unit |-> v.unit, protein |-> v.protein,
     carbs |-> v.carbs, fat |-> v.fat, fiber |-> v.fiber, calories |-> v.calories]

\* variant: INSERT OR REPLACE, the conflicting row is deleted and a new
\* row with a new id is inserted
UpsertFoods_replace(nm, v) ==
    { f \in foods : f.name # nm } \cup { FoodRow(seq_foods + 1, nm, v) }

\* variant: id INTEGER PRIMARY KEY without AUTOINCREMENT, a new row takes
\* the largest id in the table plus one
UpsertFoods_rowid(nm, v) ==
    IF \E f \in foods : f.name = nm
    THEN { IF f.name = nm THEN FoodRow(f.id, nm, v) ELSE f : f \in foods }
    ELSE foods \cup
         { FoodRow(1 + (CHOOSE m \in FoodIds \cup {0} : \A i \in FoodIds : i <= m), nm, v) }

\* INSERT ... ON CONFLICT(name) DO UPDATE: the foods table after the
\* statement; the conflicting row keeps its id and takes the new values
UpsertFoods(nm, v) ==
    IF \E f \in foods : f.name = nm
    THEN { IF f.name = nm THEN FoodRow(f.id, nm, v) ELSE f : f \in foods }
    ELSE foods \cup { FoodRow(seq_foods + 1, nm, v) }

add_food(name, v) ==
    /\ seq_foods < MaxFoodId
    /\ LET nm == strip(name) IN
       IF v.unit \notin Units
       THEN \* CHECK constraint failed: IntegrityError, the transaction rolls back
            /\ UNCHANGED << foods, seq_foods >>
            /\ last' = [op |-> "add_food", name |-> name, values |-> v, raised |-> TRUE]
       ELSE \* the rowid is allocated before the conflict on name is found, so
            \* the counter advances on the update path as well
            /\ foods' = UpsertFoods(nm, v)
            /\ seq_foods' = seq_foods + 1
            /\ last' = [op |-> "add_food", name |-> name, values |-> v, raised |-> FALSE]
    /\ UNCHANGED << entries, seq_entries >>
    /\ UNCHANGED views

\* PRAGMA foreign_keys = ON: a parent row with child rows cannot be deleted
delete_food(food_id) ==
    /\ IF \E f \in foods : f.id = food_id /\ \E e \in entries : e.food_id = f.id
       THEN \* FOREIGN KEY constraint failed: IntegrityError, rolled back
            /\ UNCHANGED foods
            /\ last' = [op |-> "delete_food", id |-> food_id, raised |-> TRUE]
       ELSE /\ foods' = { f \in foods : f.id # food_id }
            /\ last' = [op |-> "delete_food", id |-> food_id, raised |-> FALSE]
    /\ UNCHANGED << entries, seq_foods, seq_entries >>
    /\ UNCHANGED views

add_entry(d, food_id, qty, note) ==
    /\ seq_entries < MaxEntryId
    /\ IF food_id \notin FoodIds
       THEN \* FOREIGN KEY constraint failed: IntegrityError, rolled back
            /\ UNCHANGED << entries, seq_entries >>
            /\ last' = [op |-> "add_entry", qty |-> qty, raised |-> TRUE]
       ELSE /\ entries' = entries \cup
                { [id |-> seq_entries + 1, d |-> strftime(d), food_id |-> food_id,
                   qty |-> qty, note |-> strip(note)] }
            /\ seq_entries' = seq_entries + 1
            /\ last' = [op |-> "add_entry", qty |-> qty, raised |-> FALSE]
    /\ UNCHANGED << foods, seq_foods >>
    /\ UNCHANGED views

\* variant: DELETE FROM entries WHERE food_id=?
delete_entry_by_food(entry_id) ==
    /\ entries' = { e \in entries : e.food_id # entry_id }
    /\ last' = [op |-> "delete_entry", id |-> entry_id, raised |-> FALSE]
    /\ UNCHANGED << foods, seq_foods, seq_entries >>
    /\ UNCHANGED views

delete_entry(entry_id) ==
    /\ entries' = { e \in entries : e.id # entry_id }
    /\ last' = [op |-> "delete_entry", id |-> entry_id, raised |-> FALSE]
    /\ UNCHANGED << foods, seq_foods, seq_entries >>
    /\ UNCHANGED views

AddFood == \E in \in FoodInputs : add_food(in[1], in[2])
DeleteFood == \E food_id \in 1..MaxFoodId : delete_food(food_id)
AddEntry ==
    \E in \in EntryInputs, food_id \in 1..MaxFoodId : add_entry(in[1], food_id, in[2], in[3])
DeleteEntry == \E entry_id \in 1..MaxEntryId : delete_entry(entry_id)

Next == AddFood \/ DeleteFood \/ AddEntry \/ DeleteEntry

Spec == Init /\ [][Next]_vars

\* ------------------------------------------------------------------------
\* Queries
\* ------------------------------------------------------------------------
\* one row of "FROM entries e JOIN foods f ON e.food_id = f.id"
JoinRow(e, f) ==
    [id |-> e.id, d |-> e.d, name |-> f.name, unit |-> f.unit, qty |-> e.qty,
     protein |-> f.protein, carbs |-> f.carbs, fat |-> f.fat, fiber |-> f.fiber,
     calories |-> f.calories, note |-> e.note]

\* the inner join: an entry pairs with the food whose id is its food_id,
\* and an entry without such a food yields no row
Join == UNION { { JoinRow(e, f) : f \in { g \in foods : g.id = e.food_id } } : e \in entries }

\* a comes before b under ORDER BY e.d DESC, e.id DESC
Before(a, b) == IF a.d = b.d THEN a.id > b.id ELSE TextLeq(b.d, a.d)

RECURSIVE OrderBy(_)
\* the rows of S as a frame in the ORDER BY order
OrderBy(S) ==
    IF S = {} THEN << >>
    ELSE LET r == CHOOSE x \in S : \A y \in S \ {x} : Before(x, y)
         IN << r >> \o OrderBy(S \ {r})

\* WHERE e.d = ? ORDER BY e.id DESC
get_entries_by_date(d) == OrderBy({ r \in Join : r.d = strftime(d) })

\* variant: WHERE e.d >= ? AND e.d < ?
get_entries_between_dates_open(start_d, end_d) ==
    OrderBy({ r \in Join : /\ TextLeq(strftime(start_d), r.d)
                           /\ TextLeq(r.d, strftime(end_d))
                           /\ r.d # strftime(end_d) })

\* WHERE e.d BETWEEN ? AND ? ORDER BY e.d DESC, e.id DESC
get_entries_between_dates(start_d, end_d) ==
    OrderBy({ r \in Join : TextLeq(strftime(start_d), r.d) /\ TextLeq(r.d, strftime(end_d)) })

\* ------------------------------------------------------------------------
\* Calculations
\* ------------------------------------------------------------------------
calories_from_macros(p, c, f) == p * 4 + c * 4 + f * 9

\* variant: fiber counted at 2 kcal/g in the derived calories
compute_row_totals_fiber(row) ==
    LET factor == IF row.unit = "per100g" THEN row.qty ELSE row.qty * 100
        tp == row.protein * factor
        tc == row.carbs * factor
        tf == row.fat * factor
        tfi == row.fiber * factor
        tcal == IF row.calories > 0 THEN row.calories * factor
                ELSE calories_from_macros(tp, tc, tf) + 2 * tfi
    IN << tp, tc, tf, tfi, tcal >>

\* the five totals of a row, in hundredths
compute_row_totals(row) ==
    LET factor == IF row.unit = "per100g" THEN row.qty ELSE row.qty * 100
        tp == row.protein * factor
        tc == row.carbs * factor
        tf == row.fat * factor
        tfi == row.fiber * factor
        tcal == IF row.calories > 0 THEN row.calories * factor
                ELSE calories_from_macros(tp, tc, tf)
    IN << tp, tc, tf, tfi, tcal >>

\* the frame's five total_* columns: compute_row_totals applied to each row
Apply(df) == [i \in 1..Len(df) |-> compute_row_totals(df[i])]

RECURSIVE ColumnSum(_, _)
\* Series.sum() of column k of a sequence of tuples
ColumnSum(rows, k) == IF rows = << >> THEN 0 ELSE Head(rows)[k] + ColumnSum(Tail(rows), k)

\* variant: the calories total is read from the total_fiber column
summarize_column(df) ==
    IF df = << >> THEN << 0, 0, 0, 0, 0 >>
    ELSE [k \in 1..5 |-> ColumnSum(Apply(df), IF k = 5 THEN 4 ELSE k)]

summarize(df) ==
    IF df = << >> THEN << 0, 0, 0, 0, 0 >>
    ELSE [k \in 1..5 |-> ColumnSum(Apply(df), k)]

RECURSIVE GroupSum_overwrite(_, _)
\* variant: a row replaces the totals of its group instead of adding to them
GroupSum_overwrite(df, acc) ==
    IF df = << >> THEN acc
    ELSE LET r == Head(df)
             t == compute_row_totals(r)
         IN GroupSum_overwrite(Tail(df),
                               IF r.d \in DOMAIN acc
                               THEN [acc EXCEPT ![r.d] = t]
                               ELSE acc @@ (r.d :> t))

RECURSIVE GroupSum(_, _)
\* groupby("d")[total_*].sum(): rows are added to the group of their d
GroupSum(df, acc) ==
    IF df = << >> THEN acc
    ELSE LET r == Head(df)
             t == compute_row_totals(r)
         IN GroupSum(Tail(df),
                     IF r.d \in DOMAIN acc
                     THEN [acc EXCEPT ![r.d] = [k \in 1..5 |-> @[k] + t[k]]]
                     ELSE acc @@ (r.d :> t))

RECURSIVE SortValues(_)
\* sort_values("d"): the groups as a frame in ascending order of d
SortValues(g) ==
    IF DOMAIN g = {} THEN << >>
    ELSE LET k == CHOOSE x \in DOMAIN g : \A y \in DOMAIN g : TextLeq(x, y)
         IN << [d |-> k, total |-> g[k]] >> \o SortValues([x \in DOMAIN g \ {k} |-> g[x]])

\* the daily frame of the history tab
group_by_day(df) == SortValues(GroupSum(df, << >>))

\* ------------------------------------------------------------------------
\* The views, as functions of the two tables
\* ------------------------------------------------------------------------
QueryDates == { << 2023, 12, 31 >>, << 2024, 1, 1 >>, << 2024, 1, 2 >> }
PreviewQty == { 0, 1, 2, 150 }

\* food rows the tables are drawn from
ViewFoods ==
    { FoodRow(1, << "r" >>, GramsFood), FoodRow(2, << "e" >>, PieceFood), FoodRow(3, << "w" >>, NegativeFood) }

\* entry rows the tables are drawn from: rows 1..3 are logged on one day,
\* rows 4 and 5 on the next, later rows on the day after
ViewEntry(i) ==
    [id |-> i,
     d |-> strftime(IF i <= 3 THEN << 2023, 12, 31 >>
                    ELSE IF i <= 5 THEN << 2024, 1, 1 >> ELSE << 2024, 1, 2 >>),
     food_id |-> ((i - 1) % 3) + 1,
     qty |-> IF i % 3 = 1 THEN 150 ELSE i - 2,
     note |-> << >>]

\* any pair of tables; an entry's food may be missing from foods (a row
\* written while foreign keys were not enforced)
InitView ==
    /\ foods \in SUBSET ViewFoods
    /\ entries \in SUBSET { ViewEntry(i) : i \in 1..MaxRows }
    /\ seq_foods = Cardinality(ViewFoods)
    /\ seq_entries = MaxRows
    /\ last = NoCall
    /\ summary_date = << >>
    /\ hist_range = << >>
    /\ day_df = << >>
    /\ totals = << >>
    /\ hist_df = << >>
    /\ daily = << >>
    /\ preview = << >>

\* the daily totals: summarize over the rows of one date
Summarize ==
    \E d \in QueryDates :
        /\ summary_date' = d
        /\ day_df' = get_entries_by_date(d)
        /\ totals' = summarize(day_df')
        /\ UNCHANGED << store, hist_range, hist_df, daily, preview >>

\* the history: the rows of a date range grouped by day
GroupByDay ==
    \E start_d \in QueryDates, end_d \in QueryDates :
        /\ hist_range' = << start_d, end_d >>
        /\ hist_df' = get_entries_between_dates(start_d, end_d)
        /\ daily' = group_by_day(hist_df')
        /\ UNCHANGED << store, summary_date, day_df, totals, preview >>

\* the preview of the log tab: the totals of a quantity of a chosen food
RowTotals ==
    \E chosen_food \in foods, qty \in PreviewQty :
        LET row == [unit |-> chosen_food.unit, qty |-> qty,
                    protein |-> chosen_food.protein, carbs |-> chosen_food.carbs,
                    fat |-> chosen_food.fat, fiber |-> chosen_food.fiber,
                    calories |-> chosen_food.calories]
        IN /\ preview' = << row, compute_row_totals(row) >>
           /\ UNCHANGED << store, summary_date, day_df, totals, hist_range, hist_df, daily >>

NextView == Summarize \/ GroupByDay

SpecView == InitView /\ [][NextView]_vars

\* ------------------------------------------------------------------------
\* The row totals, as a function of a food and a quantity
\* ------------------------------------------------------------------------
\* the food definitions a preview is computed for
FoodDefinitions ==
    [unit : Units, protein : { 0, 3 }, carbs : { 0, 28 }, fat : { 0, 1 },
     fiber : { 0, 2 }, calories : { 0, 130 }]

\* a catalog of one food, any of FoodDefinitions
InitRow ==
    /\ foods \in { { FoodRow(1, << "r" >>, v) } : v \in FoodDefinitions }
    /\ entries = {}
    /\ seq_foods = 1
    /\ seq_entries = 0
    /\ last = NoCall
    /\ summary_date = << >>
    /\ hist_range = << >>
    /\ day_df = << >>
    /\ totals = << >>
    /\ hist_df = << >>
    /\ daily = << >>
    /\ preview = << >>

NextRow == RowTotals

SpecRow == InitRow /\ [][NextRow]_vars

\* ------------------------------------------------------------------------
\* Properties
\* ------------------------------------------------------------------------
TypeOK ==
    /\ seq_foods \in 0..MaxFoodId
    /\ seq_entries \in 0..MaxEntryId
    /\ \A f \in foods : f.id \in 1..seq_foods
    /\ \A e \in entries : e.id \in 1..seq_entries

Zero == << 0, 0, 0, 0, 0 >>

\* a <= b for dates << year, month, day >>, by the calendar
DateLeq(a, b) ==
    \/ a[1] < b[1]
    \/ a[1] = b[1] /\ a[2] < b[2]
    \/ a[1] = b[1] /\ a[2] = b[2] /\ a[3] <= b[3]

RECURSIVE SumOver(_, _, _)
\* the sum over the row numbers in I of field k of the rows' totals
SumOver(df, I, k) ==
    IF I = {} THEN 0
    ELSE LET i == CHOOSE x \in I : TRUE
         IN compute_row_totals(df[i])[k] + SumOver(df, I \ {i}, k)

\* C1: delete_food(id) on a food that entries refer to does not raise and
\* removes the food, the entries staying in their table (delete_food never
\* writes to entries, so an entry that refers to the id now did so before).
C1_DeleteReferencedFood ==
    (last.op = "delete_food" /\ \E e \in entries : e.food_id = last.id)
        => (~last.raised /\ last.id \notin FoodIds)

\* C2: an add_food that succeeds on a name already in the catalog adds no
\* row; the food of that name keeps its id and holds exactly the values
\* passed in, and every joined row of an entry of that food, whenever the
\* entry was logged, carries the new values.
C2_UpsertKeepsId ==
    [][\A f \in foods :
        (last'.op = "add_food" /\ ~last'.raised /\ f.name = strip(last'.name))
        => /\ Cardinality(foods') = Cardinality(foods)
           /\ { g \in foods' : g.name = f.name } = { FoodRow(f.id, f.name, last'.values) }
           /\ \A e \in entries :
                e.food_id = f.id
                => \E r \in Join' :
                     /\ r.id = e.id
                     /\ r.qty = e.qty
                     /\ << r.unit, r.protein, r.carbs, r.fat, r.fiber, r.calories >>
                          = << last'.values.unit, last'.values.protein, last'.values.carbs,
                               last'.values.fat, last'.values.fiber, last'.values.calories >>
    ]_vars

\* an existing food, with an entry logged before, was updated through a
\* name that needed stripping
C2_Witness ==
    /\ last.op = "add_food"
    /\ ~last.raised
    /\ last.name # strip(last.name)
    /\ \E f \in foods :
         /\ f.name = strip(last.name)
         /\ f.id < seq_foods
         /\ f.unit = "per_piece"
         /\ \E e \in entries : e.food_id = f.id

\* C3: for a quantity q >= 0 the row totals are the per-unit values times
\* the factor (q / 100 for per100g, q otherwise), the calories being
\* calories * factor when calories > 0 and 4 * protein total + 4 * carbs
\* total + 9 * fat total otherwise; q = 0 gives five zeros.  (Totals are in
\* hundredths, so the factor is q for per100g and 100 * q otherwise.)
C3_RowTotals ==
    (preview # << >> /\ preview[1].qty >= 0)
    => LET row == preview[1]
           out == preview[2]
           hundredths == IF row.unit \in { "per_piece", "per_serving" }
                         THEN 100 * row.qty ELSE row.qty
       IN /\ out[1] = hundredths * row.protein
          /\ out[2] = hundredths * row.carbs
          /\ out[3] = hundredths * row.fat
          /\ out[4] = hundredths * row.fiber
          /\ row.calories > 0 => out[5] = hundredths * row.calories
          /\ row.calories <= 0 => out[5] = 4 * out[1] + 4 * out[2] + 9 * out[3]
          /\ row.qty = 0 => out = Zero

\* calories were derived from the macros of a per-piece food with fiber
C3_Witness ==
    /\ preview # << >>
    /\ preview[1].unit = "per_piece"
    /\ preview[1].calories = 0
    /\ preview[1].fiber > 0
    /\ preview[1].qty = 2
    /\ preview[2][5] > 0

\* C4: summarize returns, field by field, the sum of compute_row_totals over
\* the rows of the frame, each row counted once, and five zeros for the
\* empty frame.
C4_SummarizeIsSum ==
    summary_date # << >>
    => /\ Len(totals) = 5
       /\ \A k \in 1..5 : totals[k] = SumOver(day_df, 1..Len(day_df), k)
       /\ day_df = << >> => totals = Zero

\* a frame of several rows was summarized
C4_Witness ==
    /\ summary_date # << >>
    /\ Len(day_df) >= 3
    /\ totals[5] > 0

\* the rows of df whose d is the text d, as a frame
RowsOfDay(df, d) == SelectSeq(df, LAMBDA r : r.d = d)

RECURSIVE BucketSum(_, _)
\* the sum of field k over the buckets of a daily frame
BucketSum(buckets, k) ==
    IF buckets = << >> THEN 0 ELSE Head(buckets).total[k] + BucketSum(Tail(buckets), k)

\* C5: the per-day grouping has one bucket for each date that occurs in the
\* frame and no other; a bucket's totals are summarize over the rows of its
\* date; and the buckets add up, field by field, to summarize of the frame.
C5_GroupByDayPartitions ==
    hist_range # << >>
    => /\ { daily[i].d : i \in 1..Len(daily) } = { hist_df[i].d : i \in 1..Len(hist_df) }
       /\ Len(daily) = Cardinality({ hist_df[i].d : i \in 1..Len(hist_df) })
       /\ \A i \in 1..Len(daily) : daily[i].total = summarize(RowsOfDay(hist_df, daily[i].d))
       /\ \A k \in 1..5 : BucketSum(daily, k) = summarize(hist_df)[k]

\* three rows of one day and two of the next were grouped into two buckets
C5_Witness ==
    /\ hist_range # << >>
    /\ Len(hist_df) = 5
    /\ Len(daily) = 2
    /\ Len(RowsOfDay(hist_df, daily[1].d)) = 3
    /\ Len(RowsOfDay(hist_df, daily[2].d)) = 2

\* C6: add_food with an empty or whitespace-only name, or with a unit that
\* is not one of the three, raises and leaves the foods table as it was.
C6_AddFoodRejects ==
    [][(last'.op = "add_food"
         /\ (strip(last'.name) = << >> \/ last'.values.unit \notin Units))
       => (last'.raised /\ foods' = foods)]_vars

\* C7: a negative qty given to add_entry, and a negative nutrient value
\* given to add_food, raise; no stored entry has qty < 0 and no stored food
\* has a nutrient value < 0.
C7_NoNegatives ==
    /\ \A e \in entries : e.qty >= 0
    /\ \A f \in foods :
         f.protein >= 0 /\ f.carbs >= 0 /\ f.fat >= 0 /\ f.fiber >= 0 /\ f.calories >= 0
    /\ (last.op = "add_entry" /\ last.qty < 0) => last.raised
    /\ (last.op = "add_food"
         /\ \E x \in { last.values.protein, last.values.carbs, last.values.fat,
                       last.values.fiber, last.values.calories } : x < 0)
       => last.raised

\* the entries a range query has to return: the date is within the bounds,
\* both included, and the food exists
InRange(start_d, end_d) ==
    { e \in entries :
        /\ \E f \in foods : f.id = e.food_id
        /\ \E dt \in QueryDates :
             strftime(dt) = e.d /\ DateLeq(start_d, dt) /\ DateLeq(dt, end_d) }

\* every row of df is an entry joined with the current fields of its food
JoinedWithFood(df) ==
    \A i \in 1..Len(df) :
        \E e \in entries, f \in foods :
            /\ e.id = df[i].id
            /\ f.id = e.food_id
            /\ << df[i].d, df[i].qty, df[i].note >> = << e.d, e.qty, e.note >>
            /\ << df[i].name, df[i].unit, df[i].protein, df[i].carbs, df[i].fat,
                  df[i].fiber, df[i].calories >>
                 = << f.name, f.unit, f.protein, f.carbs, f.fat, f.fiber, f.calories >>

\* C8: get_entries_between_dates(start, end) returns, once each, exactly
\* the entries with start <= d <= end whose food exists, joined with the
\* food's current fields; get_entries_by_date does so for the one date; an
\* entry whose food is missing is in neither.
C8_RangeQuery ==
    /\ hist_range # << >>
       => /\ Len(hist_df) = Cardinality(InRange(hist_range[1], hist_range[2]))
          /\ { hist_df[i].id : i \in 1..Len(hist_df) }
               = { e.id : e \in InRange(hist_range[1], hist_range[2]) }
          /\ JoinedWithFood(hist_df)
    /\ summary_date # << >>
       => /\ Len(day_df) = Cardinality(InRange(summary_date, summary_date))
          /\ { day_df[i].id : i \in 1..Len(day_df) }
               = { e.id : e \in InRange(summary_date, summary_date) }
          /\ JoinedWithFood(day_df)

\* a range over two days returned an entry of its first and one of its
\* last day, while the tables held an entry of an earlier day and, within
\* the range, an entry whose food is missing
C8_Witness ==
    /\ hist_range = << << 2024, 1, 1 >>, << 2024, 1, 2 >> >>
    /\ \E i \in 1..Len(hist_df) : hist_df[i].d = strftime(<< 2024, 1, 1 >>)
    /\ \E e \in entries : e.d = strftime(<< 2023, 12, 31 >>) /\ e.food_id \in FoodIds
    /\ \E e \in entries : e.d = strftime(<< 2024, 1, 1 >>) /\ e.food_id \notin FoodIds

\* C9: an entry's row never changes while it exists and a new entry never
\* takes an id used before; delete_entry(id) removes the entry of that id
\* and nothing else, in either table; add_food leaves entries as it was.
C9_EntriesFrame ==
    [][/\ \A e \in entries : \A x \in entries' : x.id = e.id => x = e
       /\ \A x \in entries' \ entries : x.id > seq_entries
       /\ last'.op = "delete_entry"
          => (entries' = { e \in entries : e.id # last'.id } /\ foods' = foods)
       /\ last'.op = "add_food" => entries' = entries
    ]_vars

\* an entry was deleted while another entry and a food remained
C9_Witness ==
    /\ last.op = "delete_entry"
    /\ last.id \in 1..seq_entries
    /\ last.id \notin EntryIds
    /\ entries # {}
    /\ foods # {}

\* C10: no two foods share an id or a name; a food keeps its name; a food
\* that appears takes an id above every id assigned before (the counter
\* never goes back), so an id is never given to a second food; and an entry
\* that stays in the joined view stays with the food of the same name.
C10_FoodIdsNeverReused ==
    [][/\ \A f \in foods' : \A g \in foods' : (f.id = g.id \/ f.name = g.name) => f = g
       /\ \A f \in foods : \A g \in foods' : g.id = f.id => g.name = f.name
       /\ \A g \in foods' : g.id \notin FoodIds => g.id > seq_foods
       /\ \A f \in foods : f.id <= seq_foods
       /\ seq_foods' >= seq_foods
       /\ \A r \in Join : \A x \in Join' : x.id = r.id => x.name = r.name
    ]_vars

\* the first food was deleted and a food was created after it
C10_Witness ==
    /\ last.op = "add_food"
    /\ seq_foods = 2
    /\ \E f \in foods : f.id = 2 /\ f.name = << "r" >>
    /\ Cardinality(foods) = 1
====
